---- MODULE Spec2Model ----
(***************************************************************************)
(* A model of package pngutil: the magic-byte check of a PNG source, the   *)
(* rewrite of its metadata chunks, and the two read/seek views the rewrite *)
(* is built from (skipReadSeeker, a view of [start, end) of a source, and  *)
(* multiReadSeeker, a concatenation of such views).                        *)
(*                                                                         *)
(* Bytes are the integers 0..255, a byte slice is a sequence, and a Go     *)
(* slice p[a:b] is SubSeq(p, a+1, b).  An io.ReadSeeker is a record        *)
(* [data, pos]; it behaves as bytes.Reader does.                           *)
(***************************************************************************)
EXTENDS Integers, Sequences, FiniteSets, TLC

VARIABLES
    rs,             \* the underlying io.ReadSeekers: id -> [data, pos]
    readers,        \* the skipReadSeekers (ReplaceMeta's readers, mrs.readSeekers)
    mrs,            \* the multiReadSeeker: [overall, rsIdx, sizes, size]
    pc,             \* where the caller is
    metadata,       \* ReplaceMeta's metadata argument, in the order range yields it
    scan,           \* ReplaceMeta's locals: [pos, keptPrevChunk]
    err,            \* the error the last operation returned
    out,            \* the bytes the caller has read from mrs so far
    hist            \* what the last operation was asked and what it returned

vars == <<rs, readers, mrs, pc, metadata, scan, err, out, hist>>

\* ------------------------------------------------------------------ bounds

\* Length of the byte sources the views are tried on.
SrcLen == 5
\* Most views in a chain.
MaxRanges == 2
\* Longest buffer handed to a Read of a view or a chain.
MaxBuf == 3
\* Most chunks between the IHDR chunk and the last chunk of a PNG source.
MaxChunks == 2

\* --------------------------------------------------------------- constants

ihdrEnd == 33

header == <<137, 80, 78, 71, 13, 10, 26, 10>>
ihdr == <<0, 0, 0, 13, 73, 72, 68, 82>>
iend == <<0, 0, 0, 0, 73, 69, 78, 68, 174, 66, 96, 130>>
itxt == <<105, 84, 88, 116>>
itxtKWGap == <<0, 0, 0, 0, 0>>

\* The chunk types of the retain map, and two it does not hold.
tagIHDR == <<73, 72, 68, 82>>
tagPLTE == <<80, 76, 84, 69>>
tagIDAT == <<73, 68, 65, 84>>
tagIEND == <<73, 69, 78, 68>>
tagTEXT == <<116, 69, 88, 116>>

retain == {tagIHDR, tagPLTE, tagIDAT, tagIEND}

\* The values of Seek's whence.
SeekStart == "SeekStart"
SeekCurrent == "SeekCurrent"
SeekEnd == "SeekEnd"
Whences == {SeekStart, SeekCurrent, SeekEnd}

\* Errors.
Nil == "nil"
EOF == "EOF"
ErrIO == "io error"
ErrNegative == "bytes.Reader.Seek: negative position"
ErrBeforeStart == "pngutil: skipReadSeeker seeking before start"
ErrWhence == "pngutil: invalid whence value for multiReadSeeker"
ErrBounds == "pngutil: seek out of bounds for multiReadSeeker"
ErrHeader == "pngutil: missing header or IHDR chunk"
ErrIEND == "pngutil: missing IEND chunk at end of file"
ErrShort == "pngutil: couldn't read next chunk length and type"
ErrRestore == "pngutil: %w: %s"

\* ------------------------------------------------------------------- bytes

Min(a, b) == IF a < b THEN a ELSE b

\* p[a:b]
Slice(p, a, b) == SubSeq(p, a + 1, b)

\* What copy(p, b) leaves in p: the first len(b) bytes of p overwritten.
Overwrite(p, b) == b \o SubSeq(p, Len(b) + 1, Len(p))

Zeros(n) == [i \in 1..n |-> 0]

\* binary.BigEndian.Uint32(p[0:4])
Uint32(p) == ((p[1] * 256 + p[2]) * 256 + p[3]) * 256 + p[4]

\* binary.BigEndian.PutUint32: the four bytes of n, most significant first.
int32ToBytes(n) ==
    << (n \div 16777216) % 256, (n \div 65536) % 256, (n \div 256) % 256, n % 256 >>

RECURSIVE XorByte(_, _)
XorByte(a, b) ==
    IF a = 0 THEN b
    ELSE IF b = 0 THEN a
    ELSE ((a + b) % 2) + 2 * XorByte(a \div 2, b \div 2)

\* A 32-bit word is kept as its four bytes, most significant first.
Xor32(x, y) ==
    << XorByte(x[1], y[1]), XorByte(x[2], y[2]), XorByte(x[3], y[3]), XorByte(x[4], y[4]) >>

\* x >> 1
Shr32(x) ==
    << x[1] \div 2, (x[2] \div 2) + (x[1] % 2) * 128,
       (x[3] \div 2) + (x[2] % 2) * 128, (x[4] \div 2) + (x[3] % 2) * 128 >>

crcPoly == <<237, 184, 131, 32>>
crcOnes == <<255, 255, 255, 255>>

RECURSIVE crcBits(_, _)
crcBits(c, k) ==
    IF k = 0 THEN c
    ELSE crcBits(IF c[4] % 2 = 1 THEN Xor32(Shr32(c), crcPoly) ELSE Shr32(c), k - 1)

\* The table-free update of the CRC c with the bytes p, a byte at a time.
RECURSIVE crcUpdate(_, _)
crcUpdate(c, p) ==
    IF p = <<>> THEN c
    ELSE CHOOSE r \in { crcUpdate(next, Tail(p)) :
                           next \in {crcBits(Xor32(c, <<0, 0, 0, p[1]>>), 8)} } : TRUE

\* crc32.NewIEEE(); Write(p); Sum32(), as the four bytes int32ToBytes stores.
crc32IEEE(p) == Xor32(crcUpdate(crcOnes, p), crcOnes)

\* ------------------------------------------------ the underlying ReadSeeker

\* An io.ReadSeeker: the bytes it holds, the position it stands at, and the
\* call of it that fails, if one does ("seek" or "read": a file's may, those of
\* a bytes.Reader never do).

\* Read(p) with len(p) = n.
RsRead(r, n) ==
    IF r.fault = "read"
    THEN [n |-> 0, bytes |-> <<>>, err |-> ErrIO, r |-> r]
    ELSE
    IF r.pos >= Len(r.data)
    THEN [n |-> 0, bytes |-> <<>>, err |-> EOF, r |-> r]
    ELSE LET k == Min(n, Len(r.data) - r.pos)
         IN  [n |-> k, bytes |-> Slice(r.data, r.pos, r.pos + k), err |-> Nil,
              r |-> [r EXCEPT !.pos = r.pos + k]]

RsSeek(r, offset, whence) ==
    IF r.fault = "seek"
    THEN [n |-> 0, err |-> ErrIO, r |-> r]
    ELSE
    LET abs == CASE whence = SeekStart -> offset
                 [] whence = SeekCurrent -> r.pos + offset
                 [] whence = SeekEnd -> Len(r.data) + offset
    IN  IF abs < 0
        THEN [n |-> 0, err |-> ErrNegative, r |-> r]
        ELSE [n |-> abs, err |-> Nil, r |-> [r EXCEPT !.pos = abs]]

\* ---------------------------------------------------------- skipReadSeeker

\* The struct literal: the fields the caller names, offset zero.
NewSkip(name, id, start, end) ==
    [name |-> name, rs |-> id, start |-> start, end |-> end, offset |-> 0]

\* Read(p) with len(p) = n, on the source r the view holds.
SkipRead(srs, r, n) ==
    IF srs.offset >= srs.end
    THEN [n |-> 0, bytes |-> <<>>, err |-> EOF, srs |-> srs, r |-> r]
    ELSE LET toRead == Min(srs.end - srs.offset, n)
             got == RsRead(r, toRead)
         IN  [n |-> got.n, bytes |-> got.bytes, err |-> got.err,
              srs |-> [srs EXCEPT !.offset = srs.offset + got.n], r |-> got.r]

\* The offset Seek resolves its arguments to.
SkipResolve(srs, offset, whence) ==
    CASE whence = SeekStart -> offset + srs.start
      [] whence = SeekCurrent -> offset + srs.start + srs.offset
      [] whence = SeekEnd -> srs.end + offset

SkipBeforeStart(srs, offset) == offset < srs.start

SkipSeek(srs, r, offset, whence) ==
    LET abs == SkipResolve(srs, offset, whence)
    IN  IF SkipBeforeStart(srs, abs)
        THEN [n |-> 0, err |-> ErrBeforeStart, srs |-> srs, r |-> r]
        ELSE LET got == RsSeek(r, abs, SeekStart)
             IN  [n |-> abs, err |-> got.err,
                  srs |-> [srs EXCEPT !.offset = abs], r |-> got.r]

\* --------------------------------------------------------- multiReadSeeker

\* A chain and what it reads from: w = [rs, readers, mrs].  mrs.rsIdx counts
\* from 0 as the slice index does: the view it names is readers[rsIdx + 1].

Active(w) == w.readers[w.mrs.rsIdx + 1]

\* The offset Seek resolves its arguments to.
MrsResolve(m, offset, whence) ==
    CASE whence = SeekStart -> offset
      [] whence = SeekCurrent -> offset + m.overall
      [] whence = SeekEnd -> m.size + offset

\* MrsHolds without its lower bound.
MrsHoldsNoFloor(offset, total, s) == offset < total + s

\* The test of the loop over sizes: the view of size s after total bytes holds offset.
MrsHolds(offset, total, s) == offset >= total /\ offset < total + s

\* The loop over sizes, from index i (counted from 0) with total bytes before
\* it: the first view that holds offset and the bytes before it, or index -1.
RECURSIVE MrsFind(_, _, _, _)
MrsFind(sizes, offset, i, total) ==
    IF i >= Len(sizes) THEN [idx |-> -1, total |-> total]
    ELSE IF MrsHolds(offset, total, sizes[i + 1]) THEN [idx |-> i, total |-> total]
    ELSE MrsFind(sizes, offset, i + 1, total + sizes[i + 1])

\* MrsSeek that seeks the view it finds and leaves rsIdx as it was.
MrsSeekKeepsIndex(w, offset, whence) ==
    IF whence \notin Whences
    THEN [n |-> 0, err |-> ErrWhence, w |-> w]
    ELSE
    LET abs == MrsResolve(w.mrs, offset, whence)
        at == MrsFind(w.mrs.sizes, abs, 0, 0)
    IN  IF at.idx < 0
        THEN [n |-> 0, err |-> ErrBounds, w |-> w]
        ELSE LET srs == w.readers[at.idx + 1]
                 got == SkipSeek(srs, w.rs[srs.rs], abs - at.total, SeekStart)
                 w1 == [w EXCEPT !.readers[at.idx + 1] = got.srs,
                                 !.rs[srs.rs] = got.r]
             IN  IF got.err # Nil
                 THEN [n |-> 0, err |-> got.err, w |-> w1]
                 ELSE [n |-> abs, err |-> Nil, w |-> [w1 EXCEPT !.mrs.overall = abs]]

\* MrsSeek that stores the offset in overall before it looks for the view.
MrsSeekStoresFirst(w, offset, whence) ==
    IF whence \notin Whences
    THEN [n |-> 0, err |-> ErrWhence, w |-> w]
    ELSE
    LET abs == MrsResolve(w.mrs, offset, whence)
        at == MrsFind(w.mrs.sizes, abs, 0, 0)
        w0 == [w EXCEPT !.mrs.overall = abs]
    IN  IF at.idx < 0
        THEN [n |-> 0, err |-> ErrBounds, w |-> w0]
        ELSE LET srs == w.readers[at.idx + 1]
                 got == SkipSeek(srs, w.rs[srs.rs], abs - at.total, SeekStart)
                 w1 == [w0 EXCEPT !.mrs.rsIdx = at.idx,
                                  !.readers[at.idx + 1] = got.srs,
                                  !.rs[srs.rs] = got.r]
             IN  [n |-> IF got.err = Nil THEN abs ELSE 0, err |-> got.err, w |-> w1]

\* MrsSeek that leaves overall as it was.
MrsSeekKeepsOverall(w, offset, whence) ==
    IF whence \notin Whences
    THEN [n |-> 0, err |-> ErrWhence, w |-> w]
    ELSE
    LET abs == MrsResolve(w.mrs, offset, whence)
        at == MrsFind(w.mrs.sizes, abs, 0, 0)
    IN  IF at.idx < 0
        THEN [n |-> 0, err |-> ErrBounds, w |-> w]
        ELSE LET srs == w.readers[at.idx + 1]
                 got == SkipSeek(srs, w.rs[srs.rs], abs - at.total, SeekStart)
                 w1 == [w EXCEPT !.mrs.rsIdx = at.idx,
                                 !.readers[at.idx + 1] = got.srs,
                                 !.rs[srs.rs] = got.r]
             IN  IF got.err # Nil
                 THEN [n |-> 0, err |-> got.err, w |-> w1]
                 ELSE [n |-> abs, err |-> Nil, w |-> w1]

MrsSeek(w, offset, whence) ==
    IF whence \notin Whences
    THEN [n |-> 0, err |-> ErrWhence, w |-> w]
    ELSE
    LET abs == MrsResolve(w.mrs, offset, whence)
        at == MrsFind(w.mrs.sizes, abs, 0, 0)
    IN  IF at.idx < 0
        THEN [n |-> 0, err |-> ErrBounds, w |-> w]
        ELSE LET srs == w.readers[at.idx + 1]
                 got == SkipSeek(srs, w.rs[srs.rs], abs - at.total, SeekStart)
                 w1 == [w EXCEPT !.mrs.rsIdx = at.idx,
                                 !.readers[at.idx + 1] = got.srs,
                                 !.rs[srs.rs] = got.r]
             IN  IF got.err # Nil
                 THEN [n |-> 0, err |-> got.err, w |-> w1]
                 ELSE [n |-> abs, err |-> Nil, w |-> [w1 EXCEPT !.mrs.overall = abs]]

\* MrsAdvance without the Seek of the next view.
MrsAdvanceNoSeek(w) == [w EXCEPT !.mrs.rsIdx = w.mrs.rsIdx + 1]

\* What Read does on reaching the end of a view that is not the last: the next
\* view becomes the active one and is seeked to its start, the result dropped.
MrsAdvance(w) ==
    LET i == w.mrs.rsIdx + 1
        srs == w.readers[i + 1]
        got == SkipSeek(srs, w.rs[srs.rs], 0, SeekStart)
    IN  [w EXCEPT !.mrs.rsIdx = i, !.readers[i + 1] = got.srs, !.rs[srs.rs] = got.r]

\* Read's loop, with read bytes (got so far) of the n of len(p).
RECURSIVE MrsReadLoop(_, _, _)
MrsReadLoop(w, n, got) ==
    IF Len(got) = n THEN [n |-> Len(got), bytes |-> got, err |-> Nil, w |-> w]
    ELSE LET srs == Active(w)
             r == SkipRead(srs, w.rs[srs.rs], n - Len(got))
             w1 == [w EXCEPT !.readers[w.mrs.rsIdx + 1] = r.srs,
                             !.rs[srs.rs] = r.r,
                             !.mrs.overall = w.mrs.overall + r.n]
             read == got \o r.bytes
         IN  IF r.err = EOF
             THEN IF w.mrs.rsIdx = Len(w.readers) - 1
                  THEN [n |-> Len(read), bytes |-> read, err |-> EOF, w |-> w1]
                  ELSE MrsReadLoop(MrsAdvance(w1), n, read)
             ELSE IF r.err # Nil
             THEN [n |-> Len(read), bytes |-> read, err |-> r.err, w |-> w1]
             ELSE MrsReadLoop(w1, n, read)

MrsRead(w, n) == MrsReadLoop(w, n, <<>>)

RECURSIVE SumSeq(_)
SumSeq(s) == IF s = <<>> THEN 0 ELSE s[1] + SumSeq(Tail(s))

\* newMultiReadSeeker without its Seek to the start.
newMultiReadSeekerNoSeek(sources, readSeekers) ==
    LET sizes == [i \in 1..Len(readSeekers) |-> readSeekers[i].end - readSeekers[i].start]
    IN  [n |-> 0, err |-> Nil,
         w |-> [rs |-> sources, readers |-> readSeekers,
                mrs |-> [overall |-> 0, rsIdx |-> 0, sizes |-> sizes,
                         size |-> SumSeq(sizes)]]]

\* newMultiReadSeeker(readSeekers...): the chain, seeked to its start.
newMultiReadSeeker(sources, readSeekers) ==
    LET sizes == [i \in 1..Len(readSeekers) |-> readSeekers[i].end - readSeekers[i].start]
        w == [rs |-> sources, readers |-> readSeekers,
              mrs |-> [overall |-> 0, rsIdx |-> 0, sizes |-> sizes, size |-> SumSeq(sizes)]]
    IN  MrsSeek(w, 0, SeekStart)

\* Size()
MrsSize(m) == m.size

\* ------------------------------------------------------------------ Assert

\* A fault of the source during one call of Assert: the call it strikes
\* (seekCur, seekStart, read16, seekEnd, read12, restore, in the order Assert
\* makes them) and what the call then does: it fails (err), or, a Read, it
\* delivers only k bytes with no error (short) or with io.EOF (eof).
NoFault == [call |-> "none", kind |-> "none", k |-> 0]

Faults ==
    {NoFault}
    \cup { [call |-> c, kind |-> "err", k |-> 0] :
             c \in {"seekCur", "seekStart", "read16", "seekEnd", "read12", "restore"} }
    \cup { [call |-> c, kind |-> "short", k |-> k] : c \in {"read16", "read12"}, k \in {1, 11} }
    \cup { [call |-> c, kind |-> "eof", k |-> k] : c \in {"read16", "read12"}, k \in {0, 11} }

\* rs.Seek(offset, whence), the call named call, under fault.
FaultySeek(r, offset, whence, fault, call) ==
    IF fault.call = call
    THEN [n |-> 0, err |-> ErrIO, r |-> r]
    ELSE RsSeek(r, offset, whence)

\* rs.Read(p) with len(p) = n, the call named call, under fault.
FaultyRead(r, n, fault, call) ==
    IF fault.call # call THEN RsRead(r, n)
    ELSE IF fault.kind = "err" THEN [n |-> 0, bytes |-> <<>>, err |-> ErrIO, r |-> r]
    ELSE LET k == Min(fault.k, Min(n, IF Len(r.data) > r.pos THEN Len(r.data) - r.pos ELSE 0))
         IN  [n |-> k, bytes |-> Slice(r.data, r.pos, r.pos + k),
              err |-> IF fault.kind = "eof" THEN EOF ELSE Nil,
              r |-> [r EXCEPT !.pos = r.pos + k]]

\* AssertDeferred that does not seek back.
AssertDeferredNoSeek(r, offset, e, fault) == [err |-> e, r |-> r]

\* The deferred function: seek back to offset, and wrap the error if that fails.
AssertDeferred(r, offset, e, fault) ==
    LET back == FaultySeek(r, offset, SeekStart, fault, "restore")
    IN  [err |-> IF back.err # Nil THEN ErrRestore ELSE e, r |-> back.r]

\* HeaderOK that compares the signature alone.
HeaderOKSignatureOnly(p) == Slice(p, 0, 8) = header

\* bytes.Equal(p, append(header, ihdr...))
HeaderOK(p) == p = header \o ihdr

\* TrailerOK that compares the chunk's length and type alone.
TrailerOKNoCRC(p) == Slice(p, 0, 8) = Slice(iend, 0, 8)

\* bytes.Equal(p[0:12], iend)
TrailerOK(p) == Slice(p, 0, 12) = iend

\* Assert(rs), rs being r, under fault: the error it returns and r afterwards.
AssertPNG(r, fault) ==
    LET cur == FaultySeek(r, 0, SeekCurrent, fault, "seekCur")
        offset == cur.n
        top == FaultySeek(cur.r, 0, SeekStart, fault, "seekStart")
        rd16 == FaultyRead(top.r, 16, fault, "read16")
        p16 == Overwrite(Zeros(16), rd16.bytes)
        tail == FaultySeek(rd16.r, 0 - 12, SeekEnd, fault, "seekEnd")
        rd12 == FaultyRead(tail.r, 16, fault, "read12")
        p12 == Overwrite(p16, rd12.bytes)
    IN  IF cur.err # Nil THEN [err |-> cur.err, r |-> cur.r]
        ELSE IF top.err # Nil THEN AssertDeferred(top.r, offset, top.err, fault)
        ELSE IF rd16.err # Nil THEN AssertDeferred(rd16.r, offset, rd16.err, fault)
        ELSE IF ~HeaderOK(p16) THEN AssertDeferred(rd16.r, offset, ErrHeader, fault)
        ELSE IF tail.err # Nil THEN AssertDeferred(tail.r, offset, tail.err, fault)
        ELSE IF rd12.err # Nil /\ rd12.err # EOF
             THEN AssertDeferred(rd12.r, offset, rd12.err, fault)
        ELSE IF ~TrailerOK(p12) THEN AssertDeferred(rd12.r, offset, ErrIEND, fault)
        ELSE AssertDeferred(rd12.r, offset, Nil, fault)

\* ----------------------------------------------------------------- history

\* What the caller last did and got back.  want is the position the request
\* names, worked out from the caller's side: a start-relative offset counts
\* from the start of the view or chain, an end-relative one from its end, a
\* current-relative one from where the caller stands (logical: the bytes of
\* the view before the caller's position: where a successful Seek put the
\* source, less start, and a Read advances it).  seekAt is the offset of the last successful Seek of a
\* chain, since the number of bytes read after it, and reads the number of
\* Reads after it.  Of views that share a source: who is the view the last
\* call was made on, cur[i] the source position view i stands at (start at
\* first, where its last successful Seek put it, plus the bytes it read
\* since), begun[i] whether a Seek of view i has succeeded, and pos0 is cur[who]
\* before the call.  Of a view on its own, pos0 is its offset before the call.
Hist0 ==
    [op |-> "none", whence |-> "", offset |-> 0, want |-> 0, buf |-> 0, n |-> 0,
     bytes |-> <<>>, err |-> Nil, logical |-> 0, seekAt |-> -1, since |-> 0,
     reads |-> 0, pos0 |-> 0, fault |-> NoFault, who |-> 0, cur |-> <<>>,
     begun |-> <<>>]

\* No scan under way, no chain built.
NoScan == [pos |-> 0, keptPrevChunk |-> FALSE]
NoMrs == [overall |-> 0, rsIdx |-> 0, sizes |-> <<>>, size |-> 0]

\* The variables an operation on views and chains leaves alone.
Idle == UNCHANGED <<metadata, scan, out>>

\* ------------------------------------------- a skipReadSeeker on its own

\* The bytes of a source of the view and chain trials: SrcLen bytes, each the
\* source's own.
SrcData(base) == [i \in 1..SrcLen |-> base + i - 1]

Sources == [f |-> [data |-> SrcData(10), pos |-> 0, fault |-> "none"],
            bb |-> [data |-> SrcData(20), pos |-> 0, fault |-> "none"]]

\* Farthest position a trial seeks a source to.
MaxPos == SrcLen + 2

InitRange ==
    /\ \E start \in 0..SrcLen, p \in {0, SrcLen - 1} :
         \E end \in start..SrcLen :
            /\ rs = [Sources EXCEPT !.f.pos = p]
            /\ readers = <<NewSkip("view", "f", start, end)>>
    /\ mrs = NoMrs
    /\ pc = "view"
    /\ metadata = <<>>
    /\ scan = NoScan
    /\ err = Nil
    /\ out = <<>>
    /\ hist = Hist0

\* The offsets the trials seek by: any from the start, near ones otherwise.
SeekOffsets(whence) ==
    IF whence = SeekStart THEN (0 - 1)..(SrcLen + 1) ELSE (0 - 2)..1

\* The position a Seek of a view names: start + the resolved logical offset.
SkipWant(srs, logical, offset, whence) ==
    CASE whence = SeekStart -> srs.start + offset
      [] whence = SeekCurrent -> srs.start + logical + offset
      [] whence = SeekEnd -> srs.end + offset

\* srs.Seek(offset, whence)
RangeSeek ==
    /\ pc = "view"
    /\ \E whence \in Whences :
       \E offset \in SeekOffsets(whence) :
         \E srs \in {readers[1]} :
         \E got \in {SkipSeek(srs, rs[srs.rs], offset, whence)},
            want \in {SkipWant(srs, hist.logical, offset, whence)} :
             /\ SkipResolve(srs, offset, whence) <= MaxPos
             /\ want \in (0 - MaxPos)..MaxPos
             /\ readers' = <<got.srs>>
             /\ rs' = [rs EXCEPT ![srs.rs] = got.r]
             /\ err' = got.err
             /\ hist' = [hist EXCEPT !.op = "seek", !.whence = whence, !.offset = offset,
                                     !.want = want, !.n = got.n, !.bytes = <<>>,
                                     !.err = got.err, !.pos0 = srs.offset,
                                     !.logical = IF got.err = Nil THEN got.n - srs.start
                                                 ELSE hist.logical]
    /\ UNCHANGED <<mrs, pc>>
    /\ Idle

\* srs.Read(p), len(p) = n
RangeRead ==
    /\ pc = "view"
    /\ \E n \in 0..MaxBuf :
         \E srs \in {readers[1]} :
         \E got \in {SkipRead(srs, rs[srs.rs], n)} :
             /\ readers' = <<got.srs>>
             /\ rs' = [rs EXCEPT ![srs.rs] = got.r]
             /\ err' = got.err
             /\ hist' = [hist EXCEPT !.op = "read", !.whence = "", !.offset = 0,
                                     !.buf = n, !.n = got.n, !.bytes = got.bytes,
                                     !.err = got.err, !.pos0 = srs.offset,
                                     !.logical = hist.logical + got.n]
    /\ UNCHANGED <<mrs, pc>>
    /\ Idle

NextRange == RangeSeek \/ RangeRead

SpecRange == InitRange /\ [][NextRange]_vars

\* ------------------------------------------- two views that share a source

\* The views of the trials, as <<start, end>>.
ShareViews == { <<0, 2>>, <<1, 3>>, <<2, SrcLen>> }

InitShare ==
    /\ \E a \in ShareViews, b \in ShareViews, p \in {0, SrcLen - 1} :
         /\ rs = [Sources EXCEPT !.f.pos = p]
         /\ readers = <<NewSkip("a", "f", a[1], a[2]), NewSkip("b", "f", b[1], b[2])>>
         /\ hist = [Hist0 EXCEPT !.cur = <<a[1], b[1]>>, !.begun = <<FALSE, FALSE>>]
    /\ mrs = NoMrs
    /\ pc = "views"
    /\ metadata = <<>>
    /\ scan = NoScan
    /\ err = Nil
    /\ out = <<>>

\* readers[i].Seek(offset, whence)
ShareSeek ==
    /\ pc = "views"
    /\ \E i \in 1..2, whence \in Whences, offset \in (0 - 1)..2 :
         \E srs \in {readers[i]} :
         \E got \in {SkipSeek(srs, rs[srs.rs], offset, whence)} :
             /\ SkipResolve(srs, offset, whence) <= MaxPos
             /\ readers' = [readers EXCEPT ![i] = got.srs]
             /\ rs' = [rs EXCEPT ![srs.rs] = got.r]
             /\ err' = got.err
             /\ hist' = [hist EXCEPT !.op = "seek", !.who = i, !.whence = whence,
                                     !.offset = offset, !.buf = 0, !.n = got.n,
                                     !.bytes = <<>>, !.err = got.err,
                                     !.pos0 = hist.cur[i],
                                     !.cur[i] = IF got.err = Nil THEN got.n ELSE @,
                                     !.begun[i] = @ \/ got.err = Nil]
    /\ UNCHANGED <<mrs, pc>>
    /\ Idle

\* readers[i].Read(p), len(p) = n
ShareRead ==
    /\ pc = "views"
    /\ \E i \in 1..2, n \in 1..MaxBuf :
         \E srs \in {readers[i]} :
         \E got \in {SkipRead(srs, rs[srs.rs], n)} :
             /\ readers' = [readers EXCEPT ![i] = got.srs]
             /\ rs' = [rs EXCEPT ![srs.rs] = got.r]
             /\ err' = got.err
             /\ hist' = [hist EXCEPT !.op = "read", !.who = i, !.whence = "",
                                     !.offset = 0, !.buf = n, !.n = got.n,
                                     !.bytes = got.bytes, !.err = got.err,
                                     !.pos0 = hist.cur[i],
                                     !.cur[i] = @ + got.n]
    /\ UNCHANGED <<mrs, pc>>
    /\ Idle

NextShare == ShareSeek \/ ShareRead

SpecShare == InitShare /\ [][NextShare]_vars

\* ------------------------------------------------ a multiReadSeeker on its own

\* The views the chain trials are built from, as <<source, start, end>>: views
\* of one source and of another, overlapping, empty, from the start of the
\* source and not, up to its end and not.
ViewChoices ==
    { <<"f", 0, 2>>, <<"f", 1, 3>>, <<"f", 2, 2>>, <<"bb", SrcLen - 2, SrcLen>> }

RECURSIVE ChainsOf(_)
ChainsOf(k) ==
    IF k = 0 THEN {<<>>}
    ELSE LET shorter == ChainsOf(k - 1)
         IN  shorter \cup { Append(c, v) : c \in { x \in shorter : Len(x) = k - 1 },
                                           v \in ViewChoices }

\* The world the chain operators work on, of the variables.
World == [rs |-> rs, readers |-> readers, mrs |-> mrs]

\* The bytes a chain stands for: those of its views, in order.
RECURSIVE Concat(_, _)
Concat(sources, views) ==
    IF views = <<>> THEN <<>>
    ELSE Slice(sources[views[1].rs].data, views[1].start, views[1].end)
            \o Concat(sources, Tail(views))

\* The position a Seek of a chain names.
MrsWant(m, offset, whence) ==
    CASE whence = SeekStart -> offset
      [] whence = SeekCurrent -> m.overall + offset
      [] whence = SeekEnd -> m.size + offset

InitChain ==
    /\ \E c \in ChainsOf(MaxRanges) \ {<<>>}, p \in {0, SrcLen - 1} :
         /\ rs = [Sources EXCEPT !.f.pos = p, !.bb.pos = p]
         /\ readers = [i \in 1..Len(c) |-> NewSkip("view", c[i][1], c[i][2], c[i][3])]
    /\ mrs = NoMrs
    /\ pc = "new"
    /\ metadata = <<>>
    /\ scan = NoScan
    /\ err = Nil
    /\ out = <<>>
    /\ hist = Hist0

\* mrs, err := newMultiReadSeeker(readers...)
NewChain ==
    /\ pc = "new"
    /\ \E got \in {newMultiReadSeeker(rs, readers)} :
           /\ rs' = got.w.rs
           /\ readers' = got.w.readers
           /\ mrs' = got.w.mrs
           /\ err' = got.err
           /\ pc' = IF got.err = Nil THEN "chain" ELSE "failed"
           /\ hist' = [hist EXCEPT !.op = "new", !.err = got.err,
                                   !.seekAt = IF got.err = Nil THEN 0 ELSE -1]
    /\ Idle

\* mrs.Seek(offset, whence)
ChainSeek ==
    /\ pc = "chain"
    /\ \E whence \in Whences :
       \E offset \in IF whence = SeekStart THEN (0 - 1)..(mrs.size + 1) ELSE (0 - 2)..1 :
         \E got \in {MrsSeek(World, offset, whence)} :
             /\ rs' = got.w.rs
             /\ readers' = got.w.readers
             /\ mrs' = got.w.mrs
             /\ err' = got.err
             /\ hist' = [hist EXCEPT !.op = "seek", !.whence = whence, !.offset = offset,
                                     !.want = MrsWant(mrs, offset, whence),
                                     !.buf = 0, !.n = got.n, !.bytes = <<>>,
                                     !.err = got.err,
                                     !.seekAt = IF got.err = Nil THEN got.n ELSE -1,
                                     !.since = 0, !.reads = 0]
    /\ UNCHANGED pc
    /\ Idle

\* mrs.Read(p), len(p) = n
ChainRead ==
    /\ pc = "chain"
    /\ \E n \in 0..MaxBuf :
         \E got \in {MrsRead(World, n)} :
             /\ rs' = got.w.rs
             /\ readers' = got.w.readers
             /\ mrs' = got.w.mrs
             /\ err' = got.err
             /\ hist' = [hist EXCEPT !.op = "read", !.whence = "", !.offset = 0,
                                     !.want = 0, !.buf = n, !.n = got.n,
                                     !.bytes = got.bytes, !.err = got.err,
                                     !.since = hist.since + got.n,
                                     !.reads = Min(hist.reads + 1, 2)]
    /\ UNCHANGED pc
    /\ Idle

NextChain == NewChain \/ ChainSeek \/ ChainRead

SpecChain == InitChain /\ [][NextChain]_vars

\* A chain of two views, one of whose sources fails every Seek or every Read.
InitFault ==
    /\ \E a \in ViewChoices, b \in ViewChoices, p \in {0, SrcLen - 1} :
       \E bad \in {"f", "bb"}, call \in {"seek", "read"} :
         /\ rs = [[Sources EXCEPT !.f.pos = p, !.bb.pos = p] EXCEPT ![bad].fault = call]
         /\ readers = <<NewSkip("view", a[1], a[2], a[3]), NewSkip("view", b[1], b[2], b[3])>>
    /\ mrs = NoMrs
    /\ pc = "new"
    /\ metadata = <<>>
    /\ scan = NoScan
    /\ err = Nil
    /\ out = <<>>
    /\ hist = Hist0

SpecFault == InitFault /\ [][NextChain]_vars

\* A chain that is built and read, and never seeked.
NextFresh == NewChain \/ ChainRead

SpecFresh == InitChain /\ [][NextFresh]_vars

\* ------------------------------------------------------------- PNG sources

\* The IHDR chunk's 13 bytes of data and its CRC: a 1 x 1 truecolour image.
ihdrData == <<0, 0, 0, 1, 0, 0, 0, 1, 8, 2, 0, 0, 0>>
ihdrCRC == <<144, 119, 83, 222>>

\* The i-th chunk of a source: length, type, n bytes of data of its own and a
\* CRC of its own (nothing reads a source chunk's CRC).
MakeChunk(tag, n, i) ==
    int32ToBytes(n) \o tag \o [j \in 1..n |-> 100 + 10 * i + j] \o <<200 + i, 201, 202, 203>>

\* The chunks a source is made of, as <<type, length of data>>: two the retain
\* map holds, two it does not.
ChunkKinds == { <<tagIDAT, 2>>, <<tagPLTE, 3>>, <<tagTEXT, 1>>, <<itxt, 0>> }

RECURSIVE ChunkLists(_)
ChunkLists(k) ==
    IF k = 0 THEN {<<>>}
    ELSE LET shorter == ChunkLists(k - 1)
         IN  shorter \cup { Append(c, x) : c \in { y \in shorter : Len(y) = k - 1 },
                                           x \in ChunkKinds }

RECURSIVE Flatten(_, _)
Flatten(list, i) ==
    IF i > Len(list) THEN <<>>
    ELSE MakeChunk(list[i][1], list[i][2], i) \o Flatten(list, i + 1)

\* A last chunk of a type the retain map does not hold, whose 8 bytes of data
\* and CRC are the 12 bytes of an IEND chunk.
EndsLikeIEND(tag) == int32ToBytes(8) \o tag \o iend

\* The ways a source ends: with the IEND chunk, or with such a chunk.
LastChunks == { iend, EndsLikeIEND(tagTEXT), EndsLikeIEND(itxt) }

PngOf(list, last) == header \o ihdr \o ihdrData \o ihdrCRC \o Flatten(list, 1) \o last

PngSources == { PngOf(list, last) : list \in ChunkLists(MaxChunks), last \in LastChunks }

\* Sources that are no PNG: the signature or the IHDR type off by a byte, the
\* IEND chunk cut short, its CRC off, and sources too short to hold the bytes
\* Assert looks at.
BrokenSources ==
    LET png == PngOf(<< <<tagIDAT, 2>> >>, iend)
        n == Len(png)
    IN  { [png EXCEPT ![1] = 136], [png EXCEPT ![16] = 83],
          SubSeq(png, 1, n - 1), [png EXCEPT ![n] = 131],
          <<>>, header, header \o ihdr }

\* Sources with the bytes Assert looks at and no whole IHDR chunk: 32 bytes,
\* the IEND chunk where the IHDR chunk's data would go on.
StuntedSources ==
    { header \o ihdr \o SubSeq(ihdrData, 1, 4) \o iend }

\* The largest length of a chunk's data the sources declare: the four bytes
\* 127 255 255 0.
bigLength == <<127, 255, 255, 0>>

\* Sources with the bytes Assert looks at whose chunks do not end where the
\* source does: after the IHDR chunk the length and type of a chunk, then the
\* IEND chunk's 12 bytes, the length declared being 1 or 7 (the chunk ends 7
\* bytes or 1 byte before the source does) or far beyond the source.
MisframedSources ==
    { header \o ihdr \o ihdrData \o ihdrCRC \o len \o tag \o iend :
        len \in {int32ToBytes(1), int32ToBytes(7), bigLength}, tag \in {tagIDAT, tagTEXT} }

AllSources == PngSources \cup BrokenSources \cup StuntedSources \cup MisframedSources

\* What Assert looks for: the first 16 bytes and the last 12.
HasMagic(data) ==
    /\ Len(data) >= 16
    /\ Slice(data, 0, 16) = header \o ihdr
    /\ Slice(data, Len(data) - 12, Len(data)) = iend

\* ------------------------------------------------------ Assert on its own

InitAssert ==
    /\ \E data \in AllSources, p \in {0, 7} :
         rs = [f |-> [data |-> data, pos |-> p, fault |-> "none"],
               bb |-> [data |-> <<>>, pos |-> 0, fault |-> "none"]]
    /\ readers = <<>>
    /\ mrs = NoMrs
    /\ pc = "assert"
    /\ metadata = <<>>
    /\ scan = NoScan
    /\ err = Nil
    /\ out = <<>>
    /\ hist = Hist0

\* err := Assert(f)
AssertCall ==
    /\ pc = "assert"
    /\ \E fault \in Faults :
       \E got \in {AssertPNG(rs.f, fault)} :
          /\ rs' = [rs EXCEPT !.f = got.r]
          /\ err' = got.err
          /\ hist' = [hist EXCEPT !.op = "assert", !.err = got.err,
                                  !.pos0 = rs.f.pos, !.fault = fault]
    /\ pc' = "asserted"
    /\ UNCHANGED <<readers, mrs>>
    /\ Idle

NextAssert == AssertCall

SpecAssert == InitAssert /\ [][NextAssert]_vars

\* ------------------------------------------------------ claims: Assert

\* C6: Assert leaves the source where it was when Assert was called, on every
\* return path, provided the seek back itself succeeds.
C6_PositionRestored ==
    (pc = "asserted" /\ hist.fault.call # "restore") => rs.f.pos = hist.pos0

C6_Witness ==
    /\ pc = "asserted" /\ hist.pos0 > 0 /\ rs.f.pos = hist.pos0
    /\ hist.fault.call = "read12" /\ hist.fault.kind = "err" /\ hist.err = ErrIO
    /\ HasMagic(rs.f.data)

\* C7: Assert succeeds exactly when the first 16 bytes of the source are the
\* signature and the IHDR chunk's length and type and the last 12 are the IEND
\* chunk (exactly: on a source that serves every call in full); a Read at the
\* IEND chunk that delivers fewer than 12 bytes never ends in success.
C7_SuccessIffMagic ==
    pc = "asserted" =>
        /\ hist.err = Nil => HasMagic(rs.f.data)
        /\ (hist.fault = NoFault /\ HasMagic(rs.f.data)) => hist.err = Nil
        /\ (hist.fault.call = "read12" /\ hist.fault.kind \in {"short", "eof"}
              /\ hist.fault.k < 12) => hist.err # Nil

C7_Witness ==
    /\ pc = "asserted" /\ HasMagic(rs.f.data)
    /\ hist.fault.call = "read12" /\ hist.fault.kind = "eof" /\ hist.fault.k = 11
    /\ hist.err = ErrIEND

\* ------------------------------------------------------------- ReplaceMeta

\* The first loop over metadata: the length of the iTXt chunks.
RECURSIVE itxtLen(_)
itxtLen(meta) ==
    IF meta = <<>> THEN 0
    ELSE 4 + 4 + Len(meta[1][1]) + 5 + Len(meta[1][2]) + 4 + itxtLen(Tail(meta))

\* One pass of the second loop: the chunk of keyword k and text v, which the
\* loop writes into bb at i; the five bytes it skips stay zero.
itxtChunk(k, v) ==
    LET data == k \o itxtKWGap \o v
    IN  int32ToBytes(Len(data)) \o itxt \o data \o crc32IEEE(itxt \o data)

RECURSIVE itxtChunks(_)
itxtChunks(meta) ==
    IF meta = <<>> THEN <<>>
    ELSE itxtChunk(meta[1][1], meta[1][2]) \o itxtChunks(Tail(meta))

\* copy(bb[i:], b), and int32ToBytes(bb[i:], n) with b the bytes of n.
CopyAt(bb, i, b) == SubSeq(bb, 1, i) \o b \o SubSeq(bb, i + Len(b) + 1, Len(bb))

\* chunkLength that counts the chunk's type in.
chunkLengthWithType(i, start) == i - (start + 4)

\* length := uint32(i - (start + 8))
chunkLength(i, start) == i - (start + 8)

\* The second loop over metadata, from index i of bb on: bb and i after it.
RECURSIVE WriteMeta(_, _, _)
WriteMeta(bb, meta, i) ==
    IF meta = <<>> THEN [bb |-> bb, i |-> i]
    ELSE LET k == meta[1][1]
             v == meta[1][2]
             start == i
             i1 == start + 4
             bb1 == CopyAt(bb, i1, itxt)
             i2 == i1 + Len(itxt)
             bb2 == CopyAt(bb1, i2, k)
             i3 == i2 + Len(k) + 5
             bb3 == CopyAt(bb2, i3, v)
             i4 == i3 + Len(v)
             length == chunkLength(i4, start)
         IN  CHOOSE r \in { WriteMeta(CopyAt(bb4, i4, crc32IEEE(Slice(bb4, start + 4, start + 8 + length))),
                                      Tail(meta), i4 + 4) :
                             bb4 \in {CopyAt(bb3, start, int32ToBytes(length))} } : TRUE

\* bb after the second loop: itxtLen bytes and 8 more of scratch space.
MakeBB(meta) == WriteMeta(Zeros(itxtLen(meta) + 8), meta, 0).bb

\* The metadata the trials replace with, in the order range yields the
\* entries: none, one, two in either order; texts empty and not.
MetaChoices ==
    LET a == <<97>>
        b == <<98>>
        x == <<120>>
    IN  { <<>>, << <<a, x>> >>, << <<a, <<>>>>, <<b, x>> >>, << <<b, x>>, <<a, <<>>>> >> }

\* The buffer WriteFile reads into.
writeBuf == 64

Init ==
    /\ \E data \in AllSources, p \in {0, 7} :
         rs = [f |-> [data |-> data, pos |-> p, fault |-> "none"],
               bb |-> [data |-> <<>>, pos |-> 0, fault |-> "none"]]
    /\ metadata \in MetaChoices
    /\ readers = <<>>
    /\ mrs = NoMrs
    /\ pc = "start"
    /\ scan = NoScan
    /\ err = Nil
    /\ out = <<>>
    /\ hist = Hist0

\* ReplaceMeta up to its loop: Assert, the iTXt chunks, the seek to the end of
\* the IHDR chunk, the first two readers.
Begin ==
    /\ pc = "start"
    /\ \E a \in {AssertPNG(rs.f, NoFault)} :
         IF a.err # Nil
         THEN /\ rs' = [rs EXCEPT !.f = a.r]
              /\ err' = a.err
              /\ pc' = "failed"
              /\ UNCHANGED <<readers, scan>>
         ELSE \E bb \in {MakeBB(metadata)} :
              /\ rs' = [f |-> RsSeek(a.r, ihdrEnd, SeekStart).r,
                        bb |-> [data |-> Slice(bb, 0, Len(bb) - 8), pos |-> 0,
                                fault |-> "none"]]
              /\ readers' = << NewSkip("header", "f", 0, ihdrEnd),
                               NewSkip("metadata", "bb", 0, Len(bb) - 8) >>
              /\ scan' = [pos |-> ihdrEnd, keptPrevChunk |-> FALSE]
              /\ err' = Nil
              /\ pc' = "scan"
    /\ UNCHANGED <<mrs, metadata, out, hist>>

\* The loop's branch for a chunk to retain, at pos, of length bytes after its
\* length and type: readers and keptPrevChunk afterwards.
ScanKeep(rdrs, sc, length) ==
    [readers |-> IF sc.keptPrevChunk
                 THEN [rdrs EXCEPT ![Len(rdrs)].end = sc.pos]
                 ELSE Append(rdrs, NewSkip("chunk", "f", sc.pos, sc.pos + length)),
     keptPrevChunk |-> TRUE]

\* The loop's branch for a chunk to discard.
ScanDiscard(rdrs, sc, length) == [readers |-> rdrs, keptPrevChunk |-> FALSE]

\* After the loop: readers[len(readers)-1].end = pos
ScanClose(rdrs, pos) == [rdrs EXCEPT ![Len(rdrs)].end = pos]

\* ScanRead that takes fewer than 8 bytes for the end of the source.
ScanReadShortEnds(rd) ==
    IF rd.err = EOF \/ (rd.err = Nil /\ rd.n # 8) THEN "end"
    ELSE IF rd.err # Nil THEN "error"
    ELSE "chunk"

\* What the loop makes of the Read of the next 8 bytes: the end of the source
\* on io.EOF, an error, a short read, or a chunk's length and type.
ScanRead(rd) ==
    IF rd.err = EOF THEN "end"
    ELSE IF rd.err # Nil THEN "error"
    ELSE IF rd.n # 8 THEN "short"
    ELSE "chunk"

\* ScanSkip that seeks from the start of the source.
ScanSkipFromStart(r, length) == RsSeek(r, length, SeekStart)

\* skip: pos, err = f.Seek(length, io.SeekCurrent)
ScanSkip(r, length) == RsSeek(r, length, SeekCurrent)

\* One pass of ReplaceMeta's loop; on io.EOF, the rest of ReplaceMeta.
Scan ==
    /\ pc = "scan"
    /\ \E rd \in {RsRead(rs.f, 8)} :
         IF ScanRead(rd) = "end"
         THEN \E got \in {newMultiReadSeeker([rs EXCEPT !.f = rd.r],
                                              ScanClose(readers, scan.pos))} :
              /\ rs' = got.w.rs
              /\ readers' = got.w.readers
              /\ mrs' = IF got.err = Nil THEN got.w.mrs ELSE NoMrs
              /\ err' = got.err
              /\ pc' = IF got.err = Nil THEN "done" ELSE "failed"
              /\ UNCHANGED scan
         ELSE IF ScanRead(rd) \in {"error", "short"}
         THEN /\ rs' = [rs EXCEPT !.f = rd.r]
              /\ err' = IF ScanRead(rd) = "error" THEN rd.err ELSE ErrShort
              /\ pc' = "failed"
              /\ UNCHANGED <<readers, mrs, scan>>
         ELSE \E length \in {Uint32(Slice(rd.bytes, 0, 4)) + 4} :
              \E step \in {IF Slice(rd.bytes, 4, 8) \in retain
                           THEN ScanKeep(readers, scan, length)
                           ELSE ScanDiscard(readers, scan, length)} :
              \E sk \in {ScanSkip(rd.r, length)} :
              /\ rs' = [rs EXCEPT !.f = sk.r]
              /\ readers' = step.readers
              /\ scan' = [pos |-> sk.n, keptPrevChunk |-> step.keptPrevChunk]
              /\ err' = Nil
              /\ UNCHANGED <<mrs, pc>>
    /\ UNCHANGED <<metadata, out, hist>>

\* One pass of the loop that drains mrs: WriteFile's, and a caller's with a
\* short buffer.
Drain ==
    /\ pc = "done"
    /\ \E n \in {MaxBuf, writeBuf} :
       \E got \in {MrsRead(World, n)} :
          /\ rs' = got.w.rs
          /\ readers' = got.w.readers
          /\ mrs' = got.w.mrs
          /\ out' = out \o got.bytes
          /\ err' = got.err
          /\ pc' = IF got.err = EOF THEN "drained"
                   ELSE IF got.err # Nil THEN "failed" ELSE "done"
    /\ UNCHANGED <<metadata, scan, hist>>

Next == Begin \/ Scan \/ Drain

Spec == Init /\ [][Next]_vars

\* ReplaceMeta with its loop running: a pass that can be made is made.
SpecLive == Init /\ [][Next]_vars /\ WF_vars(Scan)

\* The chunks of data from at on, as [start, tag, end], end being the end of
\* the chunk's CRC: those that are there in full.
RECURSIVE Chunks(_, _)
Chunks(data, at) ==
    IF at + 12 > Len(data) THEN <<>>
    ELSE LET end == at + 12 + Uint32(Slice(data, at, at + 4))
         IN  IF end > Len(data) THEN <<>>
             ELSE <<[start |-> at, tag |-> Slice(data, at + 4, at + 8), end |-> end]>>
                     \o Chunks(data, end)

\* data from the end of the IHDR chunk on is chunks and nothing else.
Framed(data) ==
    LET cs == Chunks(data, ihdrEnd)
    IN  IF cs = <<>> THEN Len(data) = ihdrEnd ELSE cs[Len(cs)].end = Len(data)

\* data is chunks after the IHDR chunk, the last of them an IEND chunk.
EndsWithIEND(data) ==
    LET cs == Chunks(data, ihdrEnd)
    IN  Framed(data) /\ cs # <<>> /\ cs[Len(cs)].tag = tagIEND

\* The bytes of the chunks after the IHDR chunk that the retain map holds.
RECURSIVE KeptBytes(_, _)
KeptBytes(data, cs) ==
    IF cs = <<>> THEN <<>>
    ELSE (IF cs[1].tag \in retain THEN Slice(data, cs[1].start, cs[1].end) ELSE <<>>)
            \o KeptBytes(data, Tail(cs))

\* ------------------------------------------------- claims: ReplaceMeta

\* C1: for a source that passes Assert and is chunks after offset 33, draining
\* the stream ReplaceMeta returns yields the source's first 33 bytes, the iTXt
\* chunks, and every chunk after the IHDR chunk of a type to retain, whole and
\* in order, and nothing else.  (Stated of the sources that end with an IEND
\* chunk, as every PNG does.)
C1_DrainIsSplice ==
    (pc = "drained" /\ EndsWithIEND(rs.f.data))
        => out = Slice(rs.f.data, 0, ihdrEnd) \o rs.bb.data
                    \o KeptBytes(rs.f.data, Chunks(rs.f.data, ihdrEnd))

\* C2: no byte of a chunk of a type not to retain lies inside a view of the
\* chain ReplaceMeta returns, and a chunk to retain that follows one not to
\* starts a view of its own.
C2_DroppedNeverInView ==
    (pc \in {"done", "drained"} /\ Framed(rs.f.data))
        => LET cs == Chunks(rs.f.data, ihdrEnd)
           IN  /\ \A i \in 1..Len(readers), j \in 1..Len(cs) :
                     (readers[i].rs = "f" /\ cs[j].tag \notin retain)
                        => (readers[i].end <= cs[j].start \/ readers[i].start >= cs[j].end)
               /\ \A j \in 2..Len(cs) :
                     (cs[j].tag \in retain /\ cs[j - 1].tag \notin retain)
                        => \E i \in 1..Len(readers) :
                              readers[i].rs = "f" /\ readers[i].start = cs[j].start

\* C8: the output of ReplaceMeta, scanned chunk by chunk, holds one iTXt chunk
\* for each key of metadata (none for no key) and no other chunk of a text
\* type that the source held.
C8_OneChunkPerKey ==
    (pc = "drained" /\ Framed(rs.f.data))
        => LET cs == Chunks(out, ihdrEnd)
               texts == { j \in 1..Len(cs) : cs[j].tag \in {itxt, tagTEXT} }
           IN  /\ Cardinality(texts) = Len(metadata)
               /\ \A m \in 1..Len(metadata) :
                     Cardinality({ j \in texts :
                        Slice(out, cs[j].start, cs[j].end)
                           = itxtChunk(metadata[m][1], metadata[m][2]) }) = 1

\* C10: with no metadata ReplaceMeta succeeds, the chain holds a metadata view
\* of length zero, and draining passes over it with no error and yields the
\* first 33 bytes and then the chunks to retain.  (Stated of the sources that
\* end with an IEND chunk, as every PNG does.)
C10_NoMetadata ==
    (metadata = <<>> /\ HasMagic(rs.f.data) /\ EndsWithIEND(rs.f.data))
        => /\ pc # "failed"
           /\ pc \in {"done", "drained"}
                 => (readers[2].end = readers[2].start /\ mrs.sizes[2] = 0)
           /\ pc = "drained"
                 => out = Slice(rs.f.data, 0, ihdrEnd)
                             \o KeptBytes(rs.f.data, Chunks(rs.f.data, ihdrEnd))

\* The maximal runs of consecutive chunks of cs that the retain map holds, as
\* [start, end]: open is TRUE while the last run goes on.
RECURSIVE Runs(_, _, _)
Runs(cs, open, acc) ==
    IF cs = <<>> THEN acc
    ELSE IF cs[1].tag \notin retain THEN Runs(Tail(cs), FALSE, acc)
    ELSE IF open
    THEN Runs(Tail(cs), TRUE, [acc EXCEPT ![Len(acc)].end = cs[1].end])
    ELSE Runs(Tail(cs), TRUE, Append(acc, [start |-> cs[1].start, end |-> cs[1].end]))

\* C11: at the end of the scan the views after the metadata view are the
\* maximal runs of consecutive chunks to retain, one view a run, from the start
\* of the run's first chunk to the end of the CRC of its last, also for a run
\* that a discarded chunk and further chunks to retain follow.  (Stated of the
\* sources that end with an IEND chunk, as every PNG does.)
C11_OneViewPerRun ==
    (pc \in {"done", "drained"} /\ EndsWithIEND(rs.f.data))
        => LET runs == Runs(Chunks(rs.f.data, ihdrEnd), FALSE, <<>>)
           IN  /\ Len(readers) = 2 + Len(runs)
               /\ \A i \in 1..Len(runs) :
                     /\ readers[2 + i].rs = "f"
                     /\ readers[2 + i].start = runs[i].start
                     /\ readers[2 + i].end = runs[i].end


\* The records of blob from at on are those of the entries of meta, in order
\* and with nothing between them or after: the length field len(keyword) + 5 +
\* len(text), the iTXt tag, the keyword, five zero bytes, the text, the CRC of
\* the bytes from the tag to the text.
RECURSIVE RecordsOf(_, _, _)
RecordsOf(blob, meta, at) ==
    IF meta = <<>> THEN at = Len(blob)
    ELSE LET k == meta[1][1]
             v == meta[1][2]
             n == Len(k) + 5 + Len(v)
         IN  /\ at + n + 12 <= Len(blob)
             /\ Uint32(Slice(blob, at, at + 4)) = n
             /\ Slice(blob, at + 4, at + 8) = <<105, 84, 88, 116>>
             /\ Slice(blob, at + 8, at + 8 + Len(k)) = k
             /\ Slice(blob, at + 8 + Len(k), at + 13 + Len(k)) = <<0, 0, 0, 0, 0>>
             /\ Slice(blob, at + 13 + Len(k), at + 8 + n) = v
             /\ Slice(blob, at + 8 + n, at + 12 + n)
                   = crc32IEEE(Slice(blob, at + 4, at + 8 + n))
             /\ RecordsOf(blob, Tail(meta), at + n + 12)

RECURSIVE BlobLen(_)
BlobLen(meta) ==
    IF meta = <<>> THEN 0 ELSE Len(meta[1][1]) + Len(meta[1][2]) + 17 + BlobLen(Tail(meta))

\* C20: the blob ReplaceMeta encodes metadata to is len(keyword) + len(text) +
\* 17 bytes an entry, the entries' records back to back, each record the length
\* field len(keyword) + 5 + len(text), the iTXt tag, the keyword, five zero
\* bytes, the text and the CRC; no entry gives a blob of no byte; and the
\* metadata view ReplaceMeta makes is the whole blob and no more.  (The view as
\* made, and as returned for a source that ends with an IEND chunk; the records
\* are looked into when the blob has just been made, before the first pass of
\* the scan: nothing writes to it later.)
C20_BlobLayout ==
    pc \in {"scan", "done", "drained"} =>
        LET blob == rs.bb.data
        IN  /\ Len(blob) = BlobLen(metadata)
            /\ (pc = "scan" /\ scan.pos = ihdrEnd /\ ~scan.keptPrevChunk)
                  => RecordsOf(blob, metadata, 0)
            /\ metadata = <<>> => blob = <<>>
            /\ (pc = "scan" \/ EndsWithIEND(rs.f.data))
                  => /\ readers[2].rs = "bb"
                     /\ readers[2].start = 0
                     /\ readers[2].end = Len(blob)

C20_Witness ==
    /\ pc = "scan" /\ scan.pos = ihdrEnd /\ Len(metadata) = 2 /\ metadata[1][2] = <<>>
    /\ EndsWithIEND(rs.f.data)
    /\ Len(rs.bb.data) = 37 /\ readers[2].end = 37 /\ rs.bb.data[4] = 6

\* C21: when the Read of the scan finds at least one byte and fewer than 8 at
\* the scan position, ReplaceMeta fails with the error of a chunk's length and
\* type not read and returns no chain; the scan ends well only where no byte
\* is left, on io.EOF.
C21_ShortReadFails ==
    [][pc = "scan"
          => /\ (Len(rs.f.data) - rs.f.pos) \in 1..7
                   => (pc' = "failed" /\ err' = ErrShort /\ mrs' = NoMrs)
             /\ pc' = "done" => rs.f.pos >= Len(rs.f.data)]_vars

C21_Witness ==
    /\ pc = "failed" /\ err = ErrShort /\ HasMagic(rs.f.data) /\ mrs = NoMrs
    /\ scan.pos > ihdrEnd /\ Len(rs.f.data) - scan.pos = 1

\* C22: the scan of ReplaceMeta ends, for every source that passes Assert: each
\* pass that goes on moves the scan position forward by 8 + the length declared
\* + 4, 12 bytes at least, and the end of the source or an error is reached.
C22_ScanTerminates ==
    /\ [][(pc = "scan" /\ pc' = "scan")
             => /\ scan.pos = rs.f.pos
                /\ scan'.pos = scan.pos + 8
                                  + Uint32(Slice(rs.f.data, scan.pos, scan.pos + 4)) + 4
                /\ scan'.pos >= scan.pos + 12
                /\ rs'.f.pos = scan'.pos]_vars
    /\ (pc = "scan") ~> (pc \in {"done", "failed"})

C22_Witness ==
    /\ pc = "done" /\ HasMagic(rs.f.data) /\ Len(rs.f.data) >= ihdrEnd + 8
    /\ Slice(rs.f.data, ihdrEnd, ihdrEnd + 4) = bigLength
    /\ scan.pos = ihdrEnd + 8 + Uint32(bigLength) + 4

\* ------------------------------------------------------ claims: the chain

\* C3: for a chain of total size T and every offset o in 0..T (o = T too),
\* Seek(o, SeekStart) succeeds, and the Reads from there up to end-of-data
\* yield T - o bytes in all.
C3_SeekThenDrain ==
    pc = "chain" =>
        /\ (hist.op = "seek" /\ hist.whence = SeekStart /\ hist.want \in 0..mrs.size)
              => hist.err = Nil
        /\ (hist.op = "read" /\ hist.err = EOF /\ hist.seekAt >= 0)
              => hist.since = mrs.size - hist.seekAt

\* C4: a Seek of a chain fails with the out-of-bounds error whenever the
\* position it names (offset; overall + offset; size + offset) is below 0 or
\* above size.
C4_SeekOutOfBounds ==
    (pc = "chain" /\ hist.op = "seek" /\ (hist.want < 0 \/ hist.want > mrs.size))
        => hist.err = ErrBounds

C4_Witness ==
    /\ pc = "chain" /\ hist.op = "seek" /\ hist.whence = SeekCurrent
    /\ mrs.overall > 0 /\ hist.want > mrs.size /\ hist.err = ErrBounds

\* C5: a Seek to o and then one Read of n bytes, o + n <= size, returns the n
\* bytes [o, o + n) of the views' bytes laid end to end, across the views'
\* boundaries too.
C5_ReadAcrossViews ==
    (pc = "chain" /\ hist.op = "read" /\ hist.reads = 1 /\ hist.seekAt >= 0
        /\ hist.seekAt + hist.buf <= mrs.size)
        => /\ hist.n = hist.buf
           /\ hist.err = Nil
           /\ hist.bytes = Slice(Concat(rs, readers), hist.seekAt, hist.seekAt + hist.buf)

C5_Witness ==
    /\ pc = "chain" /\ hist.op = "read" /\ hist.reads = 1 /\ Len(readers) = 2
    /\ readers[2].start > 0
    /\ hist.seekAt > 0 /\ hist.seekAt < mrs.sizes[1]
    /\ hist.seekAt + hist.buf = mrs.size /\ hist.n = hist.buf
    /\ hist.seekAt + hist.buf > mrs.sizes[1] + 1

\* The bytes of the views of a chain before view i (counted from 0).
Before(m, i) == SumSeq(SubSeq(m.sizes, 1, i))

C15_OverallIsConsumed ==
    pc = "chain" =>
        mrs.overall = Before(mrs, mrs.rsIdx)
                         + (readers[mrs.rsIdx + 1].offset - readers[mrs.rsIdx + 1].start)

C15_Witness ==
    /\ pc = "chain" /\ hist.op = "read" /\ hist.n > 1 /\ Len(readers) = 2
    /\ mrs.rsIdx = 1 /\ readers[2].start > 0
    /\ mrs.overall > mrs.sizes[1] /\ mrs.overall < mrs.size
    /\ hist.seekAt > 0 /\ hist.seekAt < mrs.sizes[1]

\* C18: right after newMultiReadSeeker returns a chain, wherever the sources
\* stood before, overall is 0, and the Reads from there on return the bytes of
\* the views laid end to end, each Read the next ones, size bytes in all when
\* io.EOF comes.
C18_FreshChainReadsAll ==
    pc = "chain" =>
        /\ hist.op = "new" => (mrs.overall = 0 /\ hist.err = Nil)
        /\ hist.op = "read" =>
              /\ hist.bytes = Slice(Concat(rs, readers), hist.since - hist.n, hist.since)
              /\ hist.err \in {Nil, EOF}
              /\ hist.err = EOF => hist.since = mrs.size
              /\ hist.err = Nil => hist.n = hist.buf

C18_Witness ==
    /\ pc = "chain" /\ hist.op = "read" /\ hist.err = EOF /\ Len(readers) = 2
    /\ readers[1].start > 0 /\ rs[readers[1].rs].data # rs[readers[2].rs].data
    /\ mrs.sizes[1] > 0 /\ mrs.sizes[2] > 0 /\ hist.since = mrs.size
    /\ hist.n < mrs.sizes[2]

\* C19: when a call on a view fails during a Read of a chain with an error
\* that is not io.EOF, be it the Read of the active view or the Seek of the
\* next view on advancing, the Read of the chain stops and returns that error
\* and the number of bytes read so far.
C19_NoFailureSwallowed ==
    [][(pc = "chain" /\ hist'.op = "read")
          => /\ (\E i \in (mrs.rsIdx + 2)..(mrs'.rsIdx + 1) :
                    rs[readers[i].rs].fault = "seek")
                   => hist'.err = ErrIO
             /\ hist'.err = ErrIO
                   => (hist'.n = mrs'.overall - mrs.overall /\ hist'.n = Len(hist'.bytes))]_vars

\* C23: a Seek of a chain that fails with the out-of-bounds error leaves rsIdx,
\* overall and the cursor of every view as they were (the sources too), and the
\* Read after it goes on from where the chain stood before the Seek.
C23_FailedSeekChangesNothing ==
    [][pc = "chain"
          => /\ (hist'.op = "seek" /\ hist'.err = ErrBounds)
                   => (mrs' = mrs /\ readers' = readers /\ rs' = rs)
             /\ (hist.op = "seek" /\ hist.err = ErrBounds /\ hist'.op = "read")
                   => /\ hist'.bytes = Slice(Concat(rs, readers), mrs.overall,
                                             mrs.overall + hist'.n)
                      /\ hist'.n = Min(hist'.buf, mrs.size - mrs.overall)
                      /\ mrs'.overall = mrs.overall + hist'.n]_vars

C23_Witness ==
    /\ pc = "chain" /\ hist.op = "read" /\ hist.seekAt = -1 /\ hist.reads = 1
    /\ hist.n > 1
    /\ Len(readers) = 2 /\ mrs.rsIdx = 1 /\ readers[1].offset > readers[1].start
    /\ mrs.overall - hist.n > 0 /\ mrs.overall - hist.n < mrs.sizes[1]

\* ------------------------------------------ claims: views that share a source

\* C12: a Read of a view returns the source's bytes at start + the view's
\* logical offset (the position the view stands at) also when the other view of
\* the source has read or seeked since: the bytes from there, as many as the
\* buffer and the view's end allow.  (Stated of a view that a Seek of its own
\* has positioned; a view never seeked reads from where the source stands just
\* the same.)
C12_ReadAtOwnCursor ==
    (pc = "views" /\ hist.op = "read" /\ hist.begun[hist.who])
        => LET srs == readers[hist.who]
               k == IF srs.end > hist.pos0 THEN Min(hist.buf, srs.end - hist.pos0) ELSE 0
           IN  hist.bytes = Slice(rs[srs.rs].data, hist.pos0, hist.pos0 + k)

\* ------------------------------------------------------- claims: the view

\* C9: a Seek of a view fails with the before-start error whenever the source
\* position it names is less than start, in every whence mode.
C9_SeekBeforeStartFails ==
    (pc = "view" /\ hist.op = "seek" /\ hist.want < readers[1].start)
        => hist.err = ErrBeforeStart

\* C13: a view has start <= end and its cursor, the source position offset
\* holds, within it: 0 <= offset - start <= end - start, right after
\* construction and after every Read and Seek, failed ones too.
C13_CursorInRange ==
    pc = "view" =>
        LET srs == readers[1]
        IN  /\ srs.start <= srs.end
            /\ 0 <= srs.offset - srs.start
            /\ srs.offset - srs.start <= srs.end - srs.start

\* C16: a Read of a view returns only bytes of the source positions [start,
\* end): with the logical offset at end - start or beyond it returns no byte and
\* io.EOF, otherwise at most min(len(p), end - start - logical offset) bytes, and
\* the cursor goes up by the number of bytes returned.  (Stated of a Read with
\* room for a byte at least.)
C16_ReadStaysInView ==
    (pc = "view" /\ hist.op = "read" /\ hist.buf > 0) =>
        LET srs == readers[1]
            logical == hist.logical - hist.n
            from == rs[srs.rs].pos - hist.n
        IN  /\ hist.n > 0 => (srs.start <= from /\ from + hist.n <= srs.end)
            /\ logical >= srs.end - srs.start => (hist.n = 0 /\ hist.err = EOF)
            /\ logical < srs.end - srs.start
                  => hist.n <= Min(hist.buf, srs.end - srs.start - logical)
            /\ srs.offset = hist.pos0 + hist.n

\* C17: Seek(d, io.SeekCurrent) of a view puts it at logical offset (logical
\* offset + d), as Seek(logical offset + d, io.SeekStart) does: it succeeds when
\* that is not negative, returns source position start + logical offset + d and
\* leaves the source and the cursor there; with d = 0 the position stays.
C17_SeekCurrentIsRelative ==
    (pc = "view" /\ hist.op = "seek" /\ hist.whence = SeekCurrent
        /\ hist.want >= readers[1].start)
        => /\ hist.err = Nil
           /\ hist.n = hist.want
           /\ rs[readers[1].rs].pos = hist.want
           /\ readers[1].offset = hist.want

====
